---- MODULE Spec2Model ----
(***************************************************************************)
(* Model of the RA8835 graphic LCD driver (src/ra8835.c).                  *)
(*                                                                         *)
(* The driver is write-only: every public function is a fixed sequence of  *)
(* _send() calls (command or data bytes on the parallel bus).  Each        *)
(* function is modelled as an operator that yields the sequence of bus     *)
(* transfers it emits, and one action per function feeds that sequence to  *)
(* a model of the controller (cursor address register, autoincrement       *)
(* direction, display memory).                                             *)
(***************************************************************************)
EXTENDS Integers, Sequences, FiniteSets, TLC

(***************************************************************************)
(* Bounds of the exploration.                                              *)
(***************************************************************************)
\* dev->cols ranges over 8, 16, .. 8 * MaxColBytes
MaxColBytes == 3
\* dev->rows ranges over 8, 16, .. 8 * MaxRowCells
MaxRowCells == 2
\* longest sequence of driver calls explored after ra8835_init
MaxOps == 3
\* first endpoint of the explored lines: x in -1 .. MaxX1, y in -1 .. MaxY1
MaxX1 == 3
MaxY1 == 0
\* second endpoint of the explored lines: x in -1 .. MaxX2, y in -1 .. MaxY2
MaxX2 == 19
MaxY2 == 10

(***************************************************************************)
(* RA8835 LCD commands (include/ra8835_internal.h).                        *)
(***************************************************************************)
RA8835_DISPLAY_ON == 89
RA8835_CSRDIR_RIGHT == 76
RA8835_CSRDIR_LEFT == 77
RA8835_CSRDIR_UP == 78
RA8835_CSRDIR_DOWN == 79
RA8835_CSRW == 70
RA8835_MWRITE == 66
\* ra8835_state_t: the level of the A0 line during a transfer
RA8835_CMD == "CMD"
RA8835_DATA == "DATA"
\* address pitch (APL/APH) programmed by SYSTEM SET in ra8835_init
AddressPitch == 40
\* the blank ra8835_text_clear writes, ' '
Blank == 32

(***************************************************************************)
(* C arithmetic.                                                           *)
(***************************************************************************)
\* int division truncates toward zero
CDiv(a, b) == IF a >= 0 THEN a \div b ELSE 0 - ((0 - a) \div b)
\* the remainder has the sign of the dividend
CMod(a, b) == a - b * CDiv(a, b)
\* conversion to uint8_t / uint16_t
U8(v) == v % 256
U16(v) == v % 65536
\* abs() of stdlib.h
abs(v) == IF v >= 0 THEN v ELSE 0 - v
\* v << n on int, n >= 0
Shl(v, n) == v * (2 ^ n)
\* the range of int where it has 32 bits
INT_MAX == 2147483647
INT_MIN == 0 - INT_MAX - 1
\* v++ on int.  At INT_MAX the increment overflows and the behaviour is
\* undefined: this is the value of a build whose arithmetic wraps; a build
\* that traps on overflow is an outcome of the call (Line below)
Increment(v) == IF v = INT_MAX THEN INT_MIN ELSE v + 1

\* reverse with the entry of 0x10 mistyped as 0x80
reverse_typo ==
  [i \in 1..256 |->
     IF i = 17
     THEN 128
     ELSE   128 * ((i - 1) % 2)
          + 64 * (((i - 1) \div 2) % 2)
          + 32 * (((i - 1) \div 4) % 2)
          + 16 * (((i - 1) \div 8) % 2)
          + 8 * (((i - 1) \div 16) % 2)
          + 4 * (((i - 1) \div 32) % 2)
          + 2 * (((i - 1) \div 64) % 2)
          + (((i - 1) \div 128) % 2)]

\* static const char reverse[256], indexed from 1 here
reverse ==
  << 0, 128,  64, 192,  32, 160,  96, 224,  16, 144,  80, 208,  48, 176, 112, 240,
       8, 136,  72, 200,  40, 168, 104, 232,  24, 152,  88, 216,  56, 184, 120, 248,
       4, 132,  68, 196,  36, 164, 100, 228,  20, 148,  84, 212,  52, 180, 116, 244,
      12, 140,  76, 204,  44, 172, 108, 236,  28, 156,  92, 220,  60, 188, 124, 252,
       2, 130,  66, 194,  34, 162,  98, 226,  18, 146,  82, 210,  50, 178, 114, 242,
      10, 138,  74, 202,  42, 170, 106, 234,  26, 154,  90, 218,  58, 186, 122, 250,
       6, 134,  70, 198,  38, 166, 102, 230,  22, 150,  86, 214,  54, 182, 118, 246,
      14, 142,  78, 206,  46, 174, 110, 238,  30, 158,  94, 222,  62, 190, 126, 254,
       1, 129,  65, 193,  33, 161,  97, 225,  17, 145,  81, 209,  49, 177, 113, 241,
       9, 137,  73, 201,  41, 169, 105, 233,  25, 153,  89, 217,  57, 185, 121, 249,
       5, 133,  69, 197,  37, 165, 101, 229,  21, 149,  85, 213,  53, 181, 117, 245,
      13, 141,  77, 205,  45, 173, 109, 237,  29, 157,  93, 221,  61, 189, 125, 253,
       3, 131,  67, 195,  35, 163,  99, 227,  19, 147,  83, 211,  51, 179, 115, 243,
      11, 139,  75, 203,  43, 171, 107, 235,  27, 155,  91, 219,  59, 187, 123, 251,
       7, 135,  71, 199,  39, 167, 103, 231,  23, 151,  87, 215,  55, 183, 119, 247,
      15, 143,  79, 207,  47, 175, 111, 239,  31, 159,  95, 223,  63, 191, 127, 255 >>

\* the value a plain char holds for the byte b: negative for b >= 0x80 where
\* the ABI makes plain char signed
PlainChar(b, char_signed) == IF char_signed /\ b >= 128 THEN b - 256 ELSE b

(***************************************************************************)
(* The bus.  _send puts one byte on the data lines with A0 telling         *)
(* command from data; the model keeps the pair.                            *)
(***************************************************************************)
send(value, state) == [state |-> state, value |-> U8(value)]

Repeat(item, n) == [i \in 1..n |-> item]

\* bytes per display line and text rows, as the driver computes them
ColBytes(d) == d.cols \div 8
RowCells(d) == d.rows \div 8
\* first address of the graphics layer: (dev->rows / 8) * (dev->cols / 8)
GraphicsBase(d) == RowCells(d) * ColBytes(d)
\* number of bytes of the graphics layer
GraphicsSize(d) == d.rows * ColBytes(d)

(***************************************************************************)
(* The driver functions, each as the bus traffic it produces.  dev is the  *)
(* ra8835_t descriptor: [cols, rows, upside_down].                         *)
(***************************************************************************)
\* ra8835_text_set_cursor with the mirrored address one too high
ra8835_text_set_cursor_high(d, col, row) ==
  LET a0 == U16(row * ColBytes(d) + col)
      addr == IF d.upside_down
              THEN U16(ColBytes(d) * RowCells(d) - a0)
              ELSE a0
  IN  << send(RA8835_CSRW, RA8835_CMD),
         send(addr % 256, RA8835_DATA),
         send((addr \div 256) % 256, RA8835_DATA),
         IF ~d.upside_down
         THEN send(RA8835_CSRDIR_RIGHT, RA8835_CMD)
         ELSE send(RA8835_CSRDIR_LEFT, RA8835_CMD) >>

\* ra8835_text_set_cursor mirroring over the size of the graphics layer
ra8835_text_set_cursor_graphics(d, col, row) ==
  LET a0 == U16(row * ColBytes(d) + col)
      addr == IF d.upside_down
              THEN U16(d.rows * ColBytes(d) - a0 - 1)
              ELSE a0
  IN  << send(RA8835_CSRW, RA8835_CMD),
         send(addr % 256, RA8835_DATA),
         send((addr \div 256) % 256, RA8835_DATA),
         IF ~d.upside_down
         THEN send(RA8835_CSRDIR_RIGHT, RA8835_CMD)
         ELSE send(RA8835_CSRDIR_LEFT, RA8835_CMD) >>

ra8835_text_set_cursor(d, col, row) ==
  LET a0 == U16(row * ColBytes(d) + col)
      addr == IF d.upside_down
              THEN U16(ColBytes(d) * RowCells(d) - a0 - 1)
              ELSE a0
  IN  << send(RA8835_CSRW, RA8835_CMD),
         send(addr % 256, RA8835_DATA),
         send((addr \div 256) % 256, RA8835_DATA),
         IF ~d.upside_down
         THEN send(RA8835_CSRDIR_RIGHT, RA8835_CMD)
         ELSE send(RA8835_CSRDIR_LEFT, RA8835_CMD) >>

ra8835_text_home(d) == ra8835_text_set_cursor(d, 0, 0)

\* ra8835_text_clear with the inner loop running one cell short
ra8835_text_clear_short(d) ==
  ra8835_text_home(d)
  \o << send(RA8835_MWRITE, RA8835_CMD) >>
  \o Repeat(send(Blank, RA8835_DATA), RowCells(d) * ColBytes(d) - 1)

ra8835_text_clear(d) ==
  ra8835_text_home(d)
  \o << send(RA8835_MWRITE, RA8835_CMD) >>
  \o Repeat(send(Blank, RA8835_DATA), RowCells(d) * ColBytes(d))

ra8835_text_write(d, value) ==
  << send(RA8835_MWRITE, RA8835_CMD), send(value, RA8835_DATA) >>

\* data is the string without its terminating 0
ra8835_text_print(d, data) ==
  << send(RA8835_MWRITE, RA8835_CMD) >>
  \o [i \in 1..Len(data) |-> send(data[i], RA8835_DATA)]

ra8835_clear(d) ==
  LET addr == U16(GraphicsBase(d))
  IN  << send(RA8835_CSRW, RA8835_CMD),
         send(addr % 256, RA8835_DATA),
         send((addr \div 256) % 256, RA8835_DATA),
         send(RA8835_CSRDIR_RIGHT, RA8835_CMD),
         send(RA8835_MWRITE, RA8835_CMD) >>
      \o Repeat(send(0, RA8835_DATA), d.rows * ColBytes(d))

\* reverse[(size_t) p]: p is a plain char, so where plain char is signed a
\* byte >= 0x80 indexes outside the table and the value read is whatever
\* lies there: oob
ReverseLookup(b, char_signed, oob) ==
  LET p == PlainChar(b, char_signed)
  IN  IF p \in 0..255 THEN reverse[p + 1] ELSE oob

\* img holds rows * cols/8 bytes, indexed from 1 here; oob[k] is the value
\* an out-of-table read of reverse yields for the k-th byte
ra8835_write_img(d, img, char_signed, oob) ==
  LET a0 == GraphicsBase(d)
      addr == IF d.upside_down
              THEN U16(a0 + d.rows * ColBytes(d) - 1)
              ELSE U16(a0)
  IN  << send(RA8835_CSRW, RA8835_CMD),
         send(addr % 256, RA8835_DATA),
         send((addr \div 256) % 256, RA8835_DATA),
         IF ~d.upside_down
         THEN send(RA8835_CSRDIR_RIGHT, RA8835_CMD)
         ELSE send(RA8835_CSRDIR_LEFT, RA8835_CMD),
         send(RA8835_MWRITE, RA8835_CMD) >>
      \o [k \in 1..(d.rows * ColBytes(d)) |->
            LET y == (k - 1) \div ColBytes(d)
                x == (k - 1) % ColBytes(d)
                p == img[y * ColBytes(d) + x + 1]
            IN  IF d.upside_down
                THEN send(ReverseLookup(p, char_signed, oob[k]), RA8835_DATA)
                ELSE send(p, RA8835_DATA)]

\* ra8835_put_pixel with bit 0 as the leftmost pixel
ra8835_put_pixel_lsb(d, x, y) ==
  LET addr == U16(GraphicsBase(d) + y * ColBytes(d) + CDiv(x, 8))
  IN  << send(RA8835_CSRW, RA8835_CMD),
         send(addr % 256, RA8835_DATA),
         send((addr \div 256) % 256, RA8835_DATA),
         send(RA8835_MWRITE, RA8835_CMD),
         send(Shl(1, abs(CMod(x, 8))), RA8835_DATA) >>

\* ra8835_put_pixel that also writes a zero to the byte that follows
ra8835_put_pixel_wide(d, x, y) ==
  LET addr == U16(GraphicsBase(d) + y * ColBytes(d) + CDiv(x, 8))
  IN  << send(RA8835_CSRW, RA8835_CMD),
         send(addr % 256, RA8835_DATA),
         send((addr \div 256) % 256, RA8835_DATA),
         send(RA8835_MWRITE, RA8835_CMD),
         send(Shl(1, 7 - CMod(x, 8)), RA8835_DATA),
         send(Shl(1, 7 - CMod(x, 8)), RA8835_DATA) >>

ra8835_put_pixel(d, x, y) ==
  LET addr == U16(GraphicsBase(d) + y * ColBytes(d) + CDiv(x, 8))
  IN  << send(RA8835_CSRW, RA8835_CMD),
         send(addr % 256, RA8835_DATA),
         send((addr \div 256) % 256, RA8835_DATA),
         send(RA8835_MWRITE, RA8835_CMD),
         send(Shl(1, 7 - CMod(x, 8)), RA8835_DATA) >>

(***************************************************************************)
(* ra8835_line.  The loops are unrolled by recursion over the locals       *)
(* x, y, d, length (and mask, numberByte, y_old in the inner loop); out is *)
(* the bus traffic produced so far.                                        *)
(***************************************************************************)
LineDx(x1, x2) == IF x2 - x1 >= 0 THEN 1 ELSE 0 - 1
LineDy(y1, y2) == IF y2 - y1 >= 0 THEN 1 ELSE 0 - 1
LineLength(lengthX, lengthY) == IF lengthX - lengthY >= 0 THEN lengthX ELSE lengthY

\* the inner while of the batched path, from its condition on
RECURSIVE ShallowInner(_, _, _, _, _)
ShallowInner(s, dx, dy, lengthX, lengthY) ==
  IF s.y # s.y_old
  THEN s
  ELSE IF ~(s.length > 0)
  THEN [s EXCEPT !.length = @ - 1]
  ELSE LET mask == s.mask + Shl(1, 7 - CMod(s.x, 8))
           x == s.x + dx
           d == s.d + 2 * lengthY
           pix == Append(s.pix, <<s.x, s.y>>)
       IN  IF d > 0
           THEN [s EXCEPT !.length = @ - 1, !.mask = mask, !.x = x,
                          !.d = d - 2 * lengthX, !.y = @ + dy, !.pix = pix,
                          !.out = Append(@, send(mask, RA8835_DATA))]
           ELSE IF CDiv(x, 8) # s.numberByte
           THEN ShallowInner(
                  [s EXCEPT !.length = @ - 1, !.x = x, !.d = d, !.pix = pix,
                            !.out = Append(@, send(mask, RA8835_DATA)),
                            !.numberByte = CDiv(x, 8), !.mask = 0],
                  dx, dy, lengthX, lengthY)
           ELSE ShallowInner(
                  [s EXCEPT !.length = @ - 1, !.mask = mask, !.x = x, !.d = d,
                            !.pix = pix],
                  dx, dy, lengthX, lengthY)

\* the outer while of the batched path
RECURSIVE ShallowOuter(_, _, _, _, _, _)
ShallowOuter(dev, s, dx, dy, lengthX, lengthY) ==
  IF ~(s.length > 0)
  THEN s
  ELSE LET addr == U16(GraphicsBase(dev) + s.y * ColBytes(dev) + CDiv(s.x, 8))
           hdr == << send(RA8835_CSRW, RA8835_CMD),
                     send(addr % 256, RA8835_DATA),
                     send((addr \div 256) % 256, RA8835_DATA),
                     send(RA8835_MWRITE, RA8835_CMD) >>
           after == ShallowInner(
                      [s EXCEPT !.out = @ \o hdr, !.numberByte = CDiv(s.x, 8),
                                !.y_old = s.y, !.mask = 0],
                      dx, dy, lengthX, lengthY)
       IN  ShallowOuter(dev,
             [after EXCEPT !.runs = Append(@, Len(after.pix) - Len(s.pix))],
             dx, dy, lengthX, lengthY)

\* LineShallow without the length++ before the loop
LineShallow_short(dev, x1, y1, x2, y2) ==
  LET lengthX == abs(x2 - x1)
      lengthY == abs(y2 - y1)
  IN  ShallowOuter(dev,
        [x |-> x1, y |-> y1, d |-> 0 - lengthX,
         length |-> LineLength(lengthX, lengthY),
         mask |-> 0, numberByte |-> 0, y_old |-> y1, out |-> << >>,
         pix |-> << >>, runs |-> << >>],
        LineDx(x1, x2), LineDy(y1, y2), lengthX, lengthY)

\* the branch lengthY <= lengthX; yields the locals at the end of the loop,
\* with pix the pixels whose bit was added to a mask, in order, and runs
\* the number of inner iterations of each outer iteration
LineShallow(dev, x1, y1, x2, y2) ==
  LET lengthX == abs(x2 - x1)
      lengthY == abs(y2 - y1)
  IN  ShallowOuter(dev,
        [x |-> x1, y |-> y1, d |-> 0 - lengthX,
         length |-> Increment(LineLength(lengthX, lengthY)),
         mask |-> 0, numberByte |-> 0, y_old |-> y1, out |-> << >>,
         pix |-> << >>, runs |-> << >>],
        LineDx(x1, x2), LineDy(y1, y2), lengthX, lengthY)

\* the while of the per-pixel path: yields the locals at the end of the
\* loop, with pix the ra8835_put_pixel calls it made
RECURSIVE SteepLoop(_, _, _, _, _, _, _, _, _)
SteepLoop(x, y, d, length, dx, dy, lengthX, lengthY, pix) ==
  IF ~(length > 0)
  THEN [x |-> x, y |-> y, d |-> d, length |-> length - 1, pix |-> pix]
  ELSE LET d1 == d + 2 * lengthX
       IN  IF d1 > 0
           THEN SteepLoop(x + dx, y + dy, d1 - 2 * lengthY, length - 1,
                          dx, dy, lengthX, lengthY, Append(pix, <<x, y>>))
           ELSE SteepLoop(x, y + dy, d1, length - 1,
                          dx, dy, lengthX, lengthY, Append(pix, <<x, y>>))

\* LineSteep without the length++ before the loop
LineSteep_short(x1, y1, x2, y2) ==
  LET lengthX == abs(x2 - x1)
      lengthY == abs(y2 - y1)
  IN  SteepLoop(x1, y1, 0 - lengthY, LineLength(lengthX, lengthY),
                LineDx(x1, x2), LineDy(y1, y2), lengthX, lengthY, << >>)

\* the branch lengthY > lengthX
LineSteep(x1, y1, x2, y2) ==
  LET lengthX == abs(x2 - x1)
      lengthY == abs(y2 - y1)
  IN  SteepLoop(x1, y1, 0 - lengthY, Increment(LineLength(lengthX, lengthY)),
                LineDx(x1, x2), LineDy(y1, y2), lengthX, lengthY, << >>)

\* the ra8835_put_pixel calls ra8835_line makes, in order
ra8835_line_calls(x1, y1, x2, y2) ==
  LET lengthX == abs(x2 - x1)
      lengthY == abs(y2 - y1)
  IN  IF LineLength(lengthX, lengthY) = 0
      THEN << <<x1, y1>> >>
      ELSE IF lengthY <= lengthX
      THEN << >>
      ELSE LineSteep(x1, y1, x2, y2).pix

RECURSIVE PutPixels(_, _, _)
PutPixels(dev, pix, i) ==
  IF i > Len(pix)
  THEN << >>
  ELSE ra8835_put_pixel(dev, pix[i][1], pix[i][2]) \o PutPixels(dev, pix, i + 1)

\* ra8835_line without the early return for length == 0
ra8835_line_nodegenerate(dev, x1, y1, x2, y2) ==
  LET lengthX == abs(x2 - x1)
      lengthY == abs(y2 - y1)
  IN  IF lengthY <= lengthX
      THEN LineShallow(dev, x1, y1, x2, y2).out
      ELSE PutPixels(dev, ra8835_line_calls(x1, y1, x2, y2), 1)

ra8835_line(dev, x1, y1, x2, y2) ==
  LET lengthX == abs(x2 - x1)
      lengthY == abs(y2 - y1)
  IN  IF LineLength(lengthX, lengthY) # 0 /\ lengthY <= lengthX
      THEN LineShallow(dev, x1, y1, x2, y2).out
      ELSE PutPixels(dev, ra8835_line_calls(x1, y1, x2, y2), 1)

\* the tail of ra8835_init that touches display memory and the cursor
ra8835_init(d) ==
  ra8835_clear(d)
  \o ra8835_text_clear(d)
  \o << send(RA8835_DISPLAY_ON, RA8835_CMD), send(20, RA8835_DATA) >>

(***************************************************************************)
(* The controller, as the driver relies on it: CSRW takes the cursor       *)
(* address low byte first, a CSRDIR command selects the autoincrement      *)
(* direction, and after MWRITE every data byte is stored at the cursor,    *)
(* which then moves one step in the selected direction.  The address       *)
(* register is 16 bits wide.  Memory is kept for the addresses written     *)
(* since power-up.                                                         *)
(***************************************************************************)
DirectionCommands ==
  {RA8835_CSRDIR_RIGHT, RA8835_CSRDIR_LEFT, RA8835_CSRDIR_UP, RA8835_CSRDIR_DOWN}

\* the cursor after one data byte was written
Advance(a, dir) ==
  IF dir = RA8835_CSRDIR_RIGHT THEN U16(a + 1)
  ELSE IF dir = RA8835_CSRDIR_LEFT THEN U16(a - 1)
  ELSE IF dir = RA8835_CSRDIR_UP THEN U16(a - AddressPitch)
  ELSE U16(a + AddressPitch)

Store(m, a, v) == IF a \in DOMAIN m THEN [m EXCEPT ![a] = v] ELSE (a :> v) @@ m

\* one bus transfer; c.cmd is the command in progress and c.n the number
\* of its data bytes seen, c.log the memory writes performed
Transfer(c, t) ==
  IF t.state = RA8835_CMD
  THEN [c EXCEPT !.cmd = t.value, !.n = 0,
                 !.csrdir = IF t.value \in DirectionCommands THEN t.value ELSE @]
  ELSE IF c.cmd = RA8835_CSRW
  THEN [c EXCEPT !.n = @ + 1,
                 !.csr = IF c.n = 0 THEN (@ \div 256) * 256 + t.value
                         ELSE IF c.n = 1 THEN t.value * 256 + (@ % 256)
                         ELSE @]
  ELSE IF c.cmd = RA8835_MWRITE
  THEN [c EXCEPT !.n = @ + 1,
                 !.mem = Store(@, c.csr, t.value),
                 !.csr = Advance(@, c.csrdir),
                 !.log = Append(@, [addr |-> c.csr, value |-> t.value])]
  ELSE [c EXCEPT !.n = @ + 1]

\* the transfers trace[lo..hi] in order, by halves
RECURSIVE ExecRange(_, _, _, _)
ExecRange(trace, lo, hi, c) ==
  IF lo > hi THEN c
  ELSE IF lo = hi THEN Transfer(c, trace[lo])
  ELSE LET mid == (lo + hi) \div 2
           left == ExecRange(trace, lo, mid, c)
       IN  \* the test makes TLC compute left before it descends to the right
           IF left.n >= 0 THEN ExecRange(trace, mid + 1, hi, left) ELSE left

Exec(trace, c) == ExecRange(trace, 1, Len(trace), c)

\* the controller after reset
PowerOn ==
  [mem |-> << >>, csr |-> 0, csrdir |-> RA8835_CSRDIR_RIGHT, cmd |-> 0, n |-> 0,
   log |-> << >>]

\* the controller once ra8835_init has returned
Constructed(d) == Exec(ra8835_init(d), PowerOn)

(***************************************************************************)
(* State.                                                                  *)
(***************************************************************************)
VARIABLES
  dev,      \* the descriptor: [cols, rows, upside_down]
  mem,      \* display memory: address -> byte
  csr,      \* the controller's cursor address
  csrdir,   \* the controller's autoincrement direction (a CSRDIR command)
  bus,      \* the bus transfers of the last driver call
  writes,   \* the memory writes the last driver call caused: [addr, value]
  calls,    \* the ra8835_put_pixel calls of the last driver call: <<x, y>>
  hist      \* the driver calls made since ra8835_init: [op, args]

vars == <<dev, mem, csr, csrdir, bus, writes, calls, hist>>

Devices ==
  [cols : {8 * c : c \in 1..MaxColBytes},
   rows : {8 * r : r \in 1..MaxRowCells},
   upside_down : BOOLEAN]

Init ==
  /\ dev \in Devices
  /\ mem = Constructed(dev).mem
  /\ csr = Constructed(dev).csr
  /\ csrdir = Constructed(dev).csrdir
  /\ bus = << >>
  /\ writes = << >>
  /\ calls = << >>
  /\ hist = << >>

\* a driver call: its bus traffic reaches the controller
Call(op, args, trace, pix) ==
  \E c \in {Exec(trace, [mem |-> mem, csr |-> csr, csrdir |-> csrdir,
                         cmd |-> 0, n |-> 0, log |-> << >>])} :
      /\ mem' = c.mem
      /\ csr' = c.csr
      /\ csrdir' = c.csrdir
      /\ bus' = trace
      /\ writes' = c.log
      /\ calls' = pix
      /\ hist' = Append(hist, [op |-> op, args |-> args])
      /\ UNCHANGED dev

Clear == Call("clear", << >>, ra8835_clear(dev), << >>)

TextClear == Call("text_clear", << >>, ra8835_text_clear(dev), << >>)

TextSetCursor(col, row) ==
  Call("text_set_cursor", <<col, row>>, ra8835_text_set_cursor(dev, col, row), << >>)

TextWrite(value) ==
  Call("text_write", <<value>>, ra8835_text_write(dev, value), << >>)

TextPrint(data) ==
  Call("text_print", <<data>>, ra8835_text_print(dev, data), << >>)

\* the positions of img whose reverse lookup falls outside the table
OobPositions(img, char_signed) ==
  {k \in 1..Len(img) : dev.upside_down /\ PlainChar(img[k], char_signed) \notin 0..255}

WriteImg(img) ==
  \E char_signed \in BOOLEAN :
    \E g \in [OobPositions(img, char_signed) -> 0..255] :
      Call("write_img", <<img>>,
           ra8835_write_img(dev, img, char_signed,
                            [k \in 1..Len(img) |-> IF k \in DOMAIN g THEN g[k] ELSE 0]),
           << >>)

PutPixel(x, y) ==
  Call("put_pixel", <<x, y>>, ra8835_put_pixel(dev, x, y), << <<x, y>> >>)

\* what a build makes of the call: "defined" where no int operation of
\* ra8835_line overflows; where length++ overflows, either the arithmetic
\* wraps or the overflow traps and the call ends there with nothing sent
LineOutcomes(x1, y1, x2, y2) ==
  IF LineLength(abs(x2 - x1), abs(y2 - y1)) = INT_MAX
  THEN {"wrap", "trap"}
  ELSE {"defined"}

Line(x1, y1, x2, y2) ==
  \E outcome \in LineOutcomes(x1, y1, x2, y2) :
    Call("line", <<x1, y1, x2, y2>>,
         IF outcome = "trap" THEN << >> ELSE ra8835_line(dev, x1, y1, x2, y2),
         IF outcome = "trap" THEN << >> ELSE ra8835_line_calls(x1, y1, x2, y2))

(***************************************************************************)
(* Inputs.                                                                 *)
(***************************************************************************)
\* an image with the single pixel (x, y) set, MSB leftmost
OnePixelImage(d, x, y) ==
  [k \in 1..GraphicsSize(d) |->
     IF k - 1 = y * ColBytes(d) + (x \div 8) THEN 2 ^ (7 - (x % 8)) ELSE 0]

\* an image whose neighbouring bytes differ, all below 0x80
RampImage(d) == [k \in 1..GraphicsSize(d) |-> (3 * k) % 128]

\* every pixel of the panel and one step outside it on each side
PixelInputs == ((0 - 1)..dev.cols) \X ((0 - 1)..dev.rows)

\* lines from a corner window to a wider one, in either direction
LineInputs ==
  {<<p[1], p[2], q[1], q[2]>> :
      p \in ((0 - 1)..MaxX1) \X ((0 - 1)..MaxY1),
      q \in ((0 - 1)..MaxX2) \X ((0 - 1)..MaxY2)}

\* an image whose first byte is b, the others 0
ByteImage(d, b) == [k \in 1..GraphicsSize(d) |-> IF k = 1 THEN b ELSE 0]

\* every value a byte of an image can take
ByteInputs == 0..255

\* a line whose length is the largest int
FarLineInputs == {<<0, 0, INT_MAX, 0>>}

ImageInputs ==
  {OnePixelImage(dev, x, y) : x \in 0..(dev.cols - 1), y \in {0, dev.rows - 1}}
  \cup {RampImage(dev)}

CursorInputs == (0..(ColBytes(dev) - 1)) \X (0..(RowCells(dev) - 1))

CharInputs == {65, 66}

StringInputs == {<<65, 66>>, <<65>>}

\* the calls issued in sequences
SeqPixelInputs == {<<0, 0>>, <<1, 0>>}

SeqLineInputs == {<<0, 0, 7, 0>>}

SeqCursorInputs == {<<0, 0>>}

SeqCharInputs == {65}

SeqStringInputs == {<<65, 66>>}

(***************************************************************************)
(* Specifications.                                                         *)
(***************************************************************************)
\* any sequence of at most MaxOps driver calls after ra8835_init
Next ==
  /\ Len(hist) < MaxOps
  /\ \/ Clear
     \/ TextClear
     \/ \E c \in SeqCursorInputs : TextSetCursor(c[1], c[2])
     \/ \E v \in SeqCharInputs : TextWrite(v)
     \/ \E s \in SeqStringInputs : TextPrint(s)
     \/ WriteImg(RampImage(dev))
     \/ \E p \in SeqPixelInputs : PutPixel(p[1], p[2])
     \/ \E l \in SeqLineInputs : Line(l[1], l[2], l[3], l[4])

Spec == Init /\ [][Next]_vars

\* the first driver call after ra8835_init, over every argument of the panel
NextFirst ==
  /\ Len(hist) = 0
  /\ \/ Clear
     \/ TextClear
     \/ \E c \in CursorInputs : TextSetCursor(c[1], c[2])
     \/ \E v \in CharInputs : TextWrite(v)
     \/ \E s \in StringInputs : TextPrint(s)
     \/ \E img \in ImageInputs : WriteImg(img)
     \/ \E p \in PixelInputs : PutPixel(p[1], p[2])
     \/ \E l \in SeqLineInputs : Line(l[1], l[2], l[3], l[4])

SpecFirst == Init /\ [][NextFirst]_vars

\* ra8835_line as the first driver call, on the panels of full height
InitLine == Init /\ dev.rows = 8 * MaxRowCells

NextLine ==
  /\ Len(hist) = 0
  /\ \E l \in LineInputs \cup FarLineInputs :
       \/ Line(l[1], l[2], l[3], l[4])
       \/ Line(l[3], l[4], l[1], l[2])

SpecLine == InitLine /\ [][NextLine]_vars

\* ra8835_write_img as the first driver call on the smallest upside-down
\* panel, over every value of an image byte: each goes through reverse[]
InitReverse == Init /\ dev = [cols |-> 8, rows |-> 8, upside_down |-> TRUE]

NextReverse ==
  /\ Len(hist) = 0
  /\ \E b \in ByteInputs : WriteImg(ByteImage(dev, b))

SpecReverse == InitReverse /\ [][NextReverse]_vars

(***************************************************************************)
(* Vocabulary of the properties.                                           *)
(***************************************************************************)
LastCall == hist[Len(hist)]

InRange(x, y) == x \in 0..(dev.cols - 1) /\ y \in 0..(dev.rows - 1)

\* the byte that holds pixel (x, y): graphicsBase + y * (columns/8) + x/8
ByteAddress(d, x, y) == GraphicsBase(d) + y * ColBytes(d) + (x \div 8)

GraphicsRegion(d) == GraphicsBase(d)..(GraphicsBase(d) + GraphicsSize(d) - 1)

TextRegion(d) == 0..(GraphicsBase(d) - 1)

\* bit k of the byte v, bit 7 being the leftmost pixel
BitOf(v, k) == (v \div (2 ^ k)) % 2

\* the pixels lit in the graphics layer of the memory m
Lit(m, d) ==
  {p \in (0..(d.cols - 1)) \X (0..(d.rows - 1)) :
     BitOf(m[ByteAddress(d, p[1], p[2])], 7 - (p[1] % 8)) = 1}

\* the address a CSRW burst header carries in its two data bytes
SentAddress(lo, hi) == lo.value + 256 * hi.value

\* the controller after the trace t was sent to a freshly constructed display
AfterFirst(d, t) == Exec(t, [Constructed(d) EXCEPT !.log = << >>])

NoOob(d) == [k \in 1..GraphicsSize(d) |-> 0]

(***************************************************************************)
(* C1: a horizontal drawLine(x1,y,x2,y), 0 <= x1 < x2 < columns, on a      *)
(* cleared graphics region writes exactly the byte addresses               *)
(* floor(x1/8)..floor(x2/8) of row y and lights exactly pixels x1..x2.     *)
(***************************************************************************)
C1_HorizontalSegment ==
  (/\ Len(hist) = 1
   /\ hist[1].op = "line"
   /\ hist[1].args[2] = hist[1].args[4]
   /\ hist[1].args[1] < hist[1].args[3]
   /\ InRange(hist[1].args[1], hist[1].args[2])
   /\ InRange(hist[1].args[3], hist[1].args[4]))
  => LET x1 == hist[1].args[1]
         x2 == hist[1].args[3]
         y == hist[1].args[2]
     IN  /\ {writes[i].addr : i \in 1..Len(writes)}
              = {ByteAddress(dev, x, y) : x \in x1..x2}
         /\ Lit(mem, dev) = {<<x, y>> : x \in x1..x2}

(***************************************************************************)
(* C2: direction symmetry.  drawLine(a,y,b,y) and drawLine(b,y,a,y), each  *)
(* on a cleared graphics region, leave the same set of lit pixels.         *)
(***************************************************************************)
C2_DirectionSymmetry ==
  (/\ Len(hist) = 1
   /\ hist[1].op = "line"
   /\ hist[1].args[2] = hist[1].args[4]
   /\ InRange(hist[1].args[1], hist[1].args[2])
   /\ InRange(hist[1].args[3], hist[1].args[4]))
  => LET a == hist[1].args[1]
         b == hist[1].args[3]
         y == hist[1].args[2]
     IN  Lit(mem, dev) = Lit(AfterFirst(dev, ra8835_line(dev, b, y, a, y)).mem, dev)

(***************************************************************************)
(* C3: the orientation transform is applied at every entry point that      *)
(* writes image data.  On an upside-down display setPixel and drawLine     *)
(* write the mirrored byte address with the bit-reversed mask, so that     *)
(* setPixel(x,y) on a cleared display leaves the memory writeImage leaves  *)
(* for a buffer with only pixel (x,y) set; on an upright display the       *)
(* address and data are untransformed.                                     *)
(***************************************************************************)
MirrorAddress(d, a) == GraphicsBase(d) + GraphicsSize(d) - 1 - (a - GraphicsBase(d))

\* the writes the call would make on the same panel mounted upright
UprightWrites(call) ==
  LET up == [dev EXCEPT !.upside_down = FALSE]
      t == IF call.op = "put_pixel"
           THEN ra8835_put_pixel(up, call.args[1], call.args[2])
           ELSE ra8835_line(up, call.args[1], call.args[2], call.args[3], call.args[4])
      log == AfterFirst(up, t).log
  IN  {log[i] : i \in 1..Len(log)}

C3_OrientationApplied ==
  /\ (/\ Len(hist) = 1
      /\ hist[1].op \in {"put_pixel", "line"}
      /\ InRange(hist[1].args[1], hist[1].args[2])
      /\ hist[1].op = "line" => InRange(hist[1].args[3], hist[1].args[4]))
     => {writes[i] : i \in 1..Len(writes)}
          = IF dev.upside_down
            THEN {[addr |-> MirrorAddress(dev, w.addr), value |-> reverse[w.value + 1]] :
                    w \in UprightWrites(hist[1])}
            ELSE UprightWrites(hist[1])
  /\ (/\ Len(hist) = 1
      /\ hist[1].op = "put_pixel"
      /\ InRange(hist[1].args[1], hist[1].args[2]))
     => mem = AfterFirst(dev,
                ra8835_write_img(dev, OnePixelImage(dev, hist[1].args[1], hist[1].args[2]),
                                 FALSE, NoOob(dev))).mem

(***************************************************************************)
(* C4: every write burst follows SET_ADDRESS (cursor-write-address         *)
(* command, address low, address high) -> SET_DIRECTION (one of the four   *)
(* direction commands) -> WRITE (memory-write command, data): on the bus   *)
(* no memory-write command follows a cursor-write-address command without  *)
(* a direction command in between.  Every call that sends the              *)
(* cursor-write-address command sends its first memory-write command       *)
(* itself, so the trace of each single call decides it.                    *)
(***************************************************************************)
IsCommand(t, opcode) == t.state = RA8835_CMD /\ t.value = opcode

IsDirection(t) == t.state = RA8835_CMD /\ t.value \in DirectionCommands

C4_ThreePhaseBurst ==
  /\ \A i \in 1..Len(bus) :
       IsCommand(bus[i], RA8835_CSRW)
       => /\ i + 3 <= Len(bus)
          /\ bus[i + 1].state = RA8835_DATA
          /\ bus[i + 2].state = RA8835_DATA
          /\ IsDirection(bus[i + 3])
  /\ \A i \in 1..Len(bus) :
       IsCommand(bus[i], RA8835_MWRITE)
       => \A j \in 1..(i - 1) :
            IsCommand(bus[j], RA8835_CSRW)
            => \E k \in (j + 1)..(i - 1) : IsDirection(bus[k])

(***************************************************************************)
(* C5 (as claimed): for both values of upsideDown, clearText() followed by *)
(* writeString(0,0,"AB") leaves text address 0 = 'A', text address 1 =     *)
(* 'B' and every other byte of the text region equal to ' '.               *)
(***************************************************************************)
ClearedThenWroteAB ==
  /\ Len(hist) >= 3
  /\ hist[Len(hist) - 2].op = "text_clear"
  /\ hist[Len(hist) - 1].op = "text_set_cursor"
  /\ hist[Len(hist) - 1].args = <<0, 0>>
  /\ hist[Len(hist)].op = "text_print"
  /\ hist[Len(hist)].args[1] = <<65, 66>>

C5_ClearThenWriteString ==
  ClearedThenWroteAB
  => /\ mem[0] = 65
     /\ mem[1] = 66
     /\ \A a \in TextRegion(dev) \ {0, 1} : mem[a] = Blank

(***************************************************************************)
(* C5 (amended): on an upright display the sequence leaves text address    *)
(* 0 = 'A' and 1 = 'B'; on an upside-down display with at least two text   *)
(* cells it leaves the mirrored addresses totalCells-1 = 'A' and           *)
(* totalCells-2 = 'B'; every other byte of the text region is ' '.         *)
(***************************************************************************)
C5_ClearThenWriteStringMirrored ==
  ClearedThenWroteAB
  => LET total == RowCells(dev) * ColBytes(dev)
     IN  IF ~dev.upside_down
         THEN /\ mem[0] = 65
              /\ mem[1] = 66
              /\ \A a \in TextRegion(dev) \ {0, 1} : mem[a] = Blank
         ELSE total >= 2
              => /\ mem[total - 1] = 65
                 /\ mem[total - 2] = 66
                 /\ \A a \in TextRegion(dev) \ {total - 1, total - 2} : mem[a] = Blank

C5_Witness ==
  /\ ClearedThenWroteAB
  /\ dev.upside_down
  /\ RowCells(dev) * ColBytes(dev) >= 3
  /\ mem[RowCells(dev) * ColBytes(dev) - 2] = 66
  /\ mem[0] = Blank

(***************************************************************************)
(* C6: writeImage(buffer) is one burst of rows*columns/8 data bytes that   *)
(* overwrite each byte of the graphics region exactly once.  Upright,      *)
(* graphics byte i equals buffer[i]; upside down the burst starts at the   *)
(* last graphics byte with direction left and every byte is bit-reversed,  *)
(* so buffer pixel (x,y) ends up at pixel (columns-1-x, rows-1-y).         *)
(***************************************************************************)
C6_WriteImageRotation ==
  (Len(hist) >= 1 /\ LastCall.op = "write_img")
  => LET img == LastCall.args[1]
         base == GraphicsBase(dev)
     IN  /\ Len(writes) = GraphicsSize(dev)
         /\ {writes[i].addr : i \in 1..Len(writes)} = GraphicsRegion(dev)
         /\ Cardinality({j \in 1..Len(bus) : IsCommand(bus[j], RA8835_CSRW)}) = 1
         /\ IF ~dev.upside_down
            THEN \A i \in 0..(GraphicsSize(dev) - 1) : mem[base + i] = img[i + 1]
            ELSE /\ writes[1].addr = base + GraphicsSize(dev) - 1
                 /\ IsCommand(bus[4], RA8835_CSRDIR_LEFT)
                 /\ \A p \in (0..(dev.cols - 1)) \X (0..(dev.rows - 1)) :
                      BitOf(img[p[2] * ColBytes(dev) + (p[1] \div 8) + 1], 7 - (p[1] % 8))
                        = BitOf(mem[ByteAddress(dev, dev.cols - 1 - p[1], dev.rows - 1 - p[2])],
                                7 - ((dev.cols - 1 - p[1]) % 8))

(***************************************************************************)
(* C7: for every (x,y) with 0 <= x < columns, 0 <= y < rows the address    *)
(* setPixel sends is graphicsBase + y*(columns/8) + x/8, it lies in the    *)
(* graphics region, and the data byte is 1 << (7 - x mod 8).               *)
(***************************************************************************)
C7_PixelAddress ==
  (/\ Len(hist) >= 1
   /\ LastCall.op = "put_pixel"
   /\ InRange(LastCall.args[1], LastCall.args[2]))
  => LET x == LastCall.args[1]
         y == LastCall.args[2]
     IN  /\ Len(bus) = 5
         /\ IsCommand(bus[1], RA8835_CSRW)
         /\ bus[2].state = RA8835_DATA
         /\ bus[3].state = RA8835_DATA
         /\ SentAddress(bus[2], bus[3])
              = RowCells(dev) * ColBytes(dev) + y * ColBytes(dev) + (x \div 8)
         /\ SentAddress(bus[2], bus[3]) \in GraphicsRegion(dev)
         /\ IsCommand(bus[4], RA8835_MWRITE)
         /\ x % 8 \in 0..7
         /\ bus[5] = [state |-> RA8835_DATA, value |-> 2 ^ (7 - (x % 8))]

C7_Witness ==
  /\ Len(hist) = 1
  /\ hist[1].op = "put_pixel"
  /\ hist[1].args = <<9, 1>>
  /\ writes = << [addr |-> GraphicsBase(dev) + ColBytes(dev) + 1, value |-> 64] >>

(***************************************************************************)
(* C8: setPixel or drawLine called with a coordinate outside               *)
(* [0,columns) x [0,rows) fails fast and writes no byte of controller      *)
(* memory.                                                                 *)
(***************************************************************************)
C8_FailFast ==
  (/\ Len(hist) = 1
   /\ hist[1].op \in {"put_pixel", "line"}
   /\ \/ ~InRange(hist[1].args[1], hist[1].args[2])
      \/ hist[1].op = "line" /\ ~InRange(hist[1].args[3], hist[1].args[4]))
  => /\ writes = << >>
     /\ mem = Constructed(dev).mem

(***************************************************************************)
(* C9: setPixel is a destructive single-byte write.  After setPixel(x,y)   *)
(* the addressed graphics byte equals 1 << (7 - x mod 8) whatever it held, *)
(* and every other byte of controller memory is unchanged.                 *)
(***************************************************************************)
C9_DestructiveWrite ==
  [][(/\ Len(hist') = Len(hist) + 1
      /\ hist'[Len(hist')].op = "put_pixel"
      /\ InRange(hist'[Len(hist')].args[1], hist'[Len(hist')].args[2]))
     => LET x == hist'[Len(hist')].args[1]
            y == hist'[Len(hist')].args[2]
        IN  mem' = [mem EXCEPT ![ByteAddress(dev, x, y)] = 2 ^ (7 - (x % 8))]]_vars

\* setPixel(0,0) then setPixel(1,0): pixel (1,0) lit, pixel (0,0) cleared
C9_Witness ==
  /\ Len(hist) = 2
  /\ hist[1].op = "put_pixel" /\ hist[1].args = <<0, 0>>
  /\ hist[2].op = "put_pixel" /\ hist[2].args = <<1, 0>>
  /\ mem[GraphicsBase(dev)] = 64

(***************************************************************************)
(* C10: for a steep line (lengthY > lengthX) drawLine makes exactly        *)
(* lengthY + 1 setPixel calls, one for each y from y1 to y2, the first at  *)
(* (x1,y1) and the last at (x2,y2), x following the Bresenham error        *)
(* update; no byte-batched burst is emitted.                               *)
(***************************************************************************)
C10_SteepLine ==
  (/\ Len(hist) >= 1
   /\ LastCall.op = "line"
   /\ abs(LastCall.args[4] - LastCall.args[2]) > abs(LastCall.args[3] - LastCall.args[1]))
  => LET x1 == LastCall.args[1]
         y1 == LastCall.args[2]
         x2 == LastCall.args[3]
         y2 == LastCall.args[4]
         lx == abs(x2 - x1)
         ly == abs(y2 - y1)
         sx == IF x2 >= x1 THEN 1 ELSE 0 - 1
         sy == IF y2 >= y1 THEN 1 ELSE 0 - 1
     IN  /\ Len(calls) = ly + 1
         /\ calls[1] = <<x1, y1>>
         /\ calls[ly + 1] = <<x2, y2>>
         /\ \A k \in 0..ly :
              calls[k + 1] = <<x1 + sx * ((2 * k * lx + ly - 1) \div (2 * ly)), y1 + k * sy>>
         /\ Len(bus) = 5 * (ly + 1)
         /\ \A k \in 0..ly :
              /\ IsCommand(bus[5 * k + 1], RA8835_CSRW)
              /\ IsCommand(bus[5 * k + 4], RA8835_MWRITE)
              /\ bus[5 * k + 5].state = RA8835_DATA

C10_Witness ==
  /\ Len(hist) = 1
  /\ hist[1].op = "line"
  /\ hist[1].args = <<0, 0, 2, 10>>
  /\ Len(calls) = 11
  /\ calls[6] = <<1, 5>>

(***************************************************************************)
(* C11 (as claimed): clearText() always emits one burst of                 *)
(* (rows/8)*(columns/8) fill bytes that starts at text address 0 with the  *)
(* forward (right) direction selector, whatever upsideDown is.             *)
(***************************************************************************)
\* one burst: a single CSRW header, a single MWRITE, then only fill bytes
OneFillBurst ==
  LET total == RowCells(dev) * ColBytes(dev)
  IN  /\ Len(bus) = 5 + total
      /\ IsCommand(bus[1], RA8835_CSRW)
      /\ bus[2].state = RA8835_DATA
      /\ bus[3].state = RA8835_DATA
      /\ IsDirection(bus[4])
      /\ IsCommand(bus[5], RA8835_MWRITE)
      /\ \A i \in 6..Len(bus) : bus[i] = [state |-> RA8835_DATA, value |-> Blank]
      /\ Len(writes) = total
      /\ \A i \in 1..Len(writes) : writes[i].value = Blank

C11_ClearTextForward ==
  (Len(hist) >= 1 /\ LastCall.op = "text_clear")
  => /\ OneFillBurst
     /\ SentAddress(bus[2], bus[3]) = 0
     /\ writes[1].addr = 0
     /\ IsCommand(bus[4], RA8835_CSRDIR_RIGHT)

(***************************************************************************)
(* C11 (amended): clearText() emits one burst of (rows/8)*(columns/8) fill *)
(* bytes that writes every text cell exactly once.  Upright it starts at   *)
(* text address 0 with the right direction selector; upside down it starts *)
(* at the mirrored home cell totalCells-1 with the left selector.          *)
(***************************************************************************)
C11_ClearTextOriented ==
  (Len(hist) >= 1 /\ LastCall.op = "text_clear")
  => LET total == RowCells(dev) * ColBytes(dev)
     IN  /\ OneFillBurst
         /\ {writes[i].addr : i \in 1..Len(writes)} = TextRegion(dev)
         /\ \A a \in TextRegion(dev) : mem[a] = Blank
         /\ IF ~dev.upside_down
            THEN /\ SentAddress(bus[2], bus[3]) = 0
                 /\ IsCommand(bus[4], RA8835_CSRDIR_RIGHT)
                 /\ \A i \in 1..total : writes[i].addr = i - 1
            ELSE /\ SentAddress(bus[2], bus[3]) = total - 1
                 /\ IsCommand(bus[4], RA8835_CSRDIR_LEFT)
                 /\ \A i \in 1..total : writes[i].addr = total - i

\* an upside-down clearText() after a character was written: the burst runs
\* from the last text cell down to cell 0
C11_Witness ==
  /\ Len(hist) = 2
  /\ hist[1].op = "text_write"
  /\ hist[2].op = "text_clear"
  /\ dev.upside_down
  /\ RowCells(dev) * ColBytes(dev) >= 2
  /\ writes[1].addr = RowCells(dev) * ColBytes(dev) - 1
  /\ writes[Len(writes)].addr = 0

(***************************************************************************)
(* C12: for every (x,y), drawLine(x,y,x,y) emits the bus sequence of       *)
(* setPixel(x,y): the same byte address, the same single-bit data byte,    *)
(* and nothing else.                                                       *)
(***************************************************************************)
C12_DegenerateLine ==
  (/\ Len(hist) >= 1
   /\ LastCall.op = "line"
   /\ LastCall.args[1] = LastCall.args[3]
   /\ LastCall.args[2] = LastCall.args[4])
  => LET x == LastCall.args[1]
         y == LastCall.args[2]
     IN  /\ bus = ra8835_put_pixel(dev, x, y)
         /\ calls = << <<x, y>> >>
         /\ Len(bus) = 5
         /\ Len(writes) = 1
         /\ InRange(x, y)
            => writes = << [addr |-> ByteAddress(dev, x, y),
                            value |-> 2 ^ (7 - (x % 8))] >>

C12_Witness ==
  /\ Len(hist) = 1
  /\ hist[1].op = "line"
  /\ hist[1].args = <<3, 0, 3, 0>>
  /\ writes = << [addr |-> GraphicsBase(dev), value |-> 16] >>
  /\ mem[GraphicsBase(dev)] = 16

(***************************************************************************)
(* C13: the 256-entry bit-reversal table is an involution:                 *)
(* reverse[reverse[b]] = b for every b in 0..255, and bit i of b is bit    *)
(* 7-i of reverse[b].  Stated of every byte of the image an upside-down    *)
(* writeImage was given and of every byte it sent, and of the byte sent    *)
(* for an image byte the table is indexed with on every build (< 0x80).    *)
(***************************************************************************)
Mirrored(b, r) == \A i \in 0..7 : BitOf(b, i) = BitOf(r, 7 - i)

C13_ReverseInvolution ==
  (Len(hist) >= 1 /\ LastCall.op = "write_img" /\ dev.upside_down)
  => LET img == LastCall.args[1]
         sent == [k \in 1..Len(img) |-> bus[5 + k].value]
     IN  /\ \A b \in {img[k] : k \in 1..Len(img)} \cup {sent[k] : k \in 1..Len(img)} :
              /\ reverse[b + 1] \in 0..255
              /\ reverse[reverse[b + 1] + 1] = b
              /\ Mirrored(b, reverse[b + 1])
         /\ \A k \in 1..Len(img) :
              img[k] < 128 => /\ sent[k] = reverse[img[k] + 1]
                              /\ Mirrored(img[k], sent[k])

\* the image byte 0x10 was sent as 0x08
C13_Witness ==
  /\ Len(hist) = 1
  /\ hist[1].op = "write_img"
  /\ dev.upside_down
  /\ hist[1].args[1][1] = 16
  /\ bus[6] = [state |-> RA8835_DATA, value |-> 8]
  /\ mem[GraphicsBase(dev) + GraphicsSize(dev) - 1] = 8

(***************************************************************************)
(* C14: the text and graphics regions are disjoint and contiguous.  For    *)
(* every text cell the address setTextCursor sends, row*(columns/8)+col    *)
(* or totalCells - address - 1 when upsideDown, is below graphicsBase; for *)
(* every pixel the address setPixel sends is at or above graphicsBase; and *)
(* the mirrored text address maps the text region one-to-one onto itself.  *)
(***************************************************************************)
\* the address setTextCursor(col, row) puts on the bus
CursorAddress(d, col, row) ==
  SentAddress(ra8835_text_set_cursor(d, col, row)[2],
              ra8835_text_set_cursor(d, col, row)[3])

TextCells(d) == (0..(ColBytes(d) - 1)) \X (0..(RowCells(d) - 1))

C14_RegionsDisjoint ==
  /\ (/\ Len(hist) >= 1
      /\ LastCall.op = "text_set_cursor"
      /\ <<LastCall.args[1], LastCall.args[2]>> \in TextCells(dev))
     => LET total == RowCells(dev) * ColBytes(dev)
            a0 == LastCall.args[2] * ColBytes(dev) + LastCall.args[1]
            sent == SentAddress(bus[2], bus[3])
        IN  /\ IsCommand(bus[1], RA8835_CSRW)
            /\ sent = IF dev.upside_down THEN total - a0 - 1 ELSE a0
            /\ sent < GraphicsBase(dev)
            /\ sent \in TextRegion(dev)
            /\ csr = sent
            /\ sent \notin GraphicsRegion(dev)
            /\ {CursorAddress(dev, c[1], c[2]) : c \in TextCells(dev)} = TextRegion(dev)
            /\ \A c \in TextCells(dev) :
                 CursorAddress(dev, c[1], c[2]) = sent
                 => c = <<LastCall.args[1], LastCall.args[2]>>
  /\ (/\ Len(hist) >= 1
      /\ LastCall.op = "put_pixel"
      /\ InRange(LastCall.args[1], LastCall.args[2]))
     => /\ IsCommand(bus[1], RA8835_CSRW)
        /\ SentAddress(bus[2], bus[3]) >= GraphicsBase(dev)
        /\ SentAddress(bus[2], bus[3]) \notin TextRegion(dev)
  /\ TextRegion(dev) \cap GraphicsRegion(dev) = {}
  /\ TextRegion(dev) \cup GraphicsRegion(dev)
       = 0..(GraphicsBase(dev) + GraphicsSize(dev) - 1)

\* the cursor set to the last cell of an upside-down panel lands on address 0
C14_Witness ==
  /\ Len(hist) = 1
  /\ hist[1].op = "text_set_cursor"
  /\ hist[1].args = <<ColBytes(dev) - 1, RowCells(dev) - 1>>
  /\ dev.upside_down
  /\ RowCells(dev) * ColBytes(dev) >= 4
  /\ SentAddress(bus[2], bus[3]) = 0
  /\ csr = 0

(***************************************************************************)
(* Vocabulary of the batched path: the walk of a shallow line is the       *)
(* sequence of pixels whose bit the loop adds to a mask.                   *)
(***************************************************************************)
\* the first call is a drawLine with lengthY <= lengthX, not degenerate,
\* both endpoints on the panel
FirstShallowLine ==
  /\ Len(hist) = 1
  /\ hist[1].op = "line"
  /\ abs(hist[1].args[4] - hist[1].args[2]) <= abs(hist[1].args[3] - hist[1].args[1])
  /\ abs(hist[1].args[3] - hist[1].args[1]) > 0
  /\ InRange(hist[1].args[1], hist[1].args[2])
  /\ InRange(hist[1].args[3], hist[1].args[4])

Walk == LineShallow(dev, hist[1].args[1], hist[1].args[2],
                    hist[1].args[3], hist[1].args[4]).pix

\* the number of maximal runs of consecutive walk pixels in one byte
ByteRuns(W) ==
  1 + Cardinality({i \in 1..(Len(W) - 1) :
                     ByteAddress(dev, W[i][1], W[i][2])
                       # ByteAddress(dev, W[i + 1][1], W[i + 1][2])})

\* the mask of the walk pixels that the byte at address a holds
WalkMask(W, a) ==
  LET bit(k) == IF \E i \in 1..Len(W) :
                     /\ ByteAddress(dev, W[i][1], W[i][2]) = a
                     /\ 7 - (W[i][1] % 8) = k
                THEN 2 ^ k ELSE 0
  IN  bit(0) + bit(1) + bit(2) + bit(3) + bit(4) + bit(5) + bit(6) + bit(7)

(***************************************************************************)
(* C15: in the batched path a new cursor-write-address burst is issued     *)
(* each time the row changes and each time a byte boundary is crossed, so  *)
(* every mask byte written lands at graphicsBase + y*(columns/8) + x/8 of  *)
(* the pixels it encodes, for x increasing and for x decreasing.           *)
(***************************************************************************)
C15_BurstPerByte ==
  FirstShallowLine
  => /\ Cardinality({j \in 1..Len(bus) : IsCommand(bus[j], RA8835_CSRW)})
          = ByteRuns(Walk)
     /\ \A i \in 1..Len(writes) :
          /\ writes[i].value # 0
          /\ writes[i].value = WalkMask(Walk, writes[i].addr)

(***************************************************************************)
(* C16: for every shallow line (0 < lengthY <= lengthX, endpoints in       *)
(* range) drawn left to right on a cleared graphics region the lit pixels  *)
(* are exactly the lengthX+1 pixels of the Bresenham walk from (x1,y1) to  *)
(* (x2,y2); every accumulated mask, the one being built when the walk      *)
(* ends included, is flushed.                                              *)
(***************************************************************************)
C16_ShallowLineLit ==
  (/\ FirstShallowLine
   /\ abs(hist[1].args[4] - hist[1].args[2]) > 0
   /\ hist[1].args[1] < hist[1].args[3])
  => LET lengthX == abs(hist[1].args[3] - hist[1].args[1])
     IN  /\ Len(Walk) = lengthX + 1
         /\ Walk[1] = <<hist[1].args[1], hist[1].args[2]>>
         /\ Walk[lengthX + 1] = <<hist[1].args[3], hist[1].args[4]>>
         /\ Lit(mem, dev) = {Walk[i] : i \in 1..Len(Walk)}
         /\ Cardinality(Lit(mem, dev)) = lengthX + 1
         /\ Len(writes) = ByteRuns(Walk)

(***************************************************************************)
(* C17: region frame.  After construction and any sequence of public       *)
(* operations with in-range arguments, in either orientation, every data   *)
(* byte a graphics operation (clearGraphics, writeImage, setPixel,         *)
(* drawLine) writes lands inside the graphics region and the text region   *)
(* is left unchanged; every byte clearText writes lands inside the text    *)
(* region; autoincrement never carries a burst past the end of its region. *)
(***************************************************************************)
\* the last call is a graphics operation whose coordinates are on the panel
GraphicsCallInRange ==
  /\ Len(hist) >= 1
  /\ LastCall.op \in {"clear", "write_img", "put_pixel", "line"}
  /\ LastCall.op \in {"put_pixel", "line"} => InRange(LastCall.args[1], LastCall.args[2])
  /\ LastCall.op = "line" => InRange(LastCall.args[3], LastCall.args[4])

C17_RegionFrame ==
  /\ GraphicsCallInRange
     => /\ \A i \in 1..Len(writes) : writes[i].addr \in GraphicsRegion(dev)
        /\ Len(hist) = 1
           => \A a \in TextRegion(dev) : mem[a] = Constructed(dev).mem[a]
  /\ (Len(hist) >= 1 /\ LastCall.op = "text_clear")
     => \A i \in 1..Len(writes) : writes[i].addr \in TextRegion(dev)

(***************************************************************************)
(* C18: stateless drawing.  The effect of drawLine and setPixel on         *)
(* controller memory is determined by their arguments and the              *)
(* DisplayConfig alone: two runs that start from the same memory contents  *)
(* and differ only in the operation executed just before (setTextCursor,   *)
(* which on an upside-down display leaves the direction left, against      *)
(* clearGraphics, which leaves it right) end with identical memory after   *)
(* the same call.                                                          *)
(***************************************************************************)
\* the memory after the call whose bus traffic is t, made on a freshly
\* constructed display right after the driver call whose traffic is before
MemoryAfter(before, t) == AfterFirst(dev, before \o t).mem

C18_StatelessDrawing ==
  (/\ Len(hist) = 1
   /\ hist[1].op \in {"put_pixel", "line"}
   /\ InRange(hist[1].args[1], hist[1].args[2])
   /\ hist[1].op = "line" => InRange(hist[1].args[3], hist[1].args[4]))
  => /\ MemoryAfter(ra8835_clear(dev), bus)
          = MemoryAfter(ra8835_text_set_cursor(dev, 0, 0), bus)
     /\ mem = MemoryAfter(ra8835_clear(dev), bus)

(***************************************************************************)
(* C19 (as claimed): drawLine terminates for all integer endpoints.  The   *)
(* nested loops of the shallow path and the loop of the steep path consume *)
(* exactly max(lengthX, lengthY) + 1 pixel steps, each outer iteration of  *)
(* the shallow path consumes at least one step, and the walk ends with     *)
(* (x, y) one step past (x2, y2) along the dominant axis: the last pixel   *)
(* visited is (x2, y2), the dominant coordinate ends one step beyond it    *)
(* and the other coordinate on it or one step beyond.                      *)
(***************************************************************************)
\* the sum of a sequence of naturals no longer than the longest line
RECURSIVE SumOf(_, _)
SumOf(q, i) == IF i > Len(q) THEN 0 ELSE q[i] + SumOf(q, i + 1)

\* the loops of the last drawLine consumed max(lengthX, lengthY) + 1 steps
LoopsConsumeLength ==
  LET x1 == LastCall.args[1]
      y1 == LastCall.args[2]
      x2 == LastCall.args[3]
      y2 == LastCall.args[4]
      lengthX == abs(x2 - x1)
      lengthY == abs(y2 - y1)
      dx == IF x2 >= x1 THEN 1 ELSE 0 - 1
      dy == IF y2 >= y1 THEN 1 ELSE 0 - 1
      s == LineShallow(dev, x1, y1, x2, y2)
      t == LineSteep(x1, y1, x2, y2)
  IN  IF lengthX = 0 /\ lengthY = 0
      THEN Len(calls) = 1 /\ Len(bus) = 5
      ELSE IF lengthY <= lengthX
      THEN /\ bus = s.out
           /\ Len(s.pix) - 1 = lengthX
           /\ s.pix[Len(s.pix)] = <<x2, y2>>
           /\ s.length \in {0, 0 - 1}
           /\ Len(s.runs) >= 1
           /\ \A i \in 1..Len(s.runs) : s.runs[i] >= 1
           /\ SumOf(s.runs, 1) - 1 = lengthX
           /\ Len(s.runs)
                = Cardinality({j \in 1..Len(bus) : IsCommand(bus[j], RA8835_CSRW)})
           /\ s.x = x2 + dx
           /\ s.y \in {y2, y2 + dy}
      ELSE /\ calls = t.pix
           /\ Len(t.pix) - 1 = lengthY
           /\ t.pix[Len(t.pix)] = <<x2, y2>>
           /\ t.length = 0 - 1
           /\ t.y = y2 + dy
           /\ t.x \in {x2, x2 + dx}

WalkWithinInt ==
  /\ \A i \in 1..4 : LastCall.args[i] > INT_MIN /\ LastCall.args[i] < INT_MAX
  /\ LineLength(abs(LastCall.args[3] - LastCall.args[1]),
                abs(LastCall.args[4] - LastCall.args[2])) <= (INT_MAX - 1) \div 2

====
